---- MODULE Spec2Model ----
(***************************************************************************)
(* A model of the UFRa face re-aging engine: the frame orchestrator        *)
(* (Engine::processFrame in core/src/engine.cpp and the dependency-free    *)
(* core/src/minimal_engine.cpp), the face parser's region masks, the       *)
(* feed-forward generator and the detector.                                *)
(*                                                                         *)
(* An image (cv::Mat) is a record [rows, cols, px] with px the row-major   *)
(* sequence of its pixels; one channel value stands for a pixel, since     *)
(* every operation modelled here treats the three channels alike.          *)
(***************************************************************************)
EXTENDS Integers, Sequences, FiniteSets, TLC

\* ------------------------------------------------------------------ bounds
MaxFaces == 2       \* faces in one FrameContext
MaxCols == 2        \* width of an input frame (a frame is one row high)
MaxMaskCells == 3   \* pixels of a label map given to the region operations
MaxStrip == 9       \* pixels of a long skin strip holding one eyebrow pixel
MaxBlendCols == 1   \* width of a crop given to the generator alone
MaxCompCols == 3    \* width of a frame given to the compositor alone
MaxBatch == 2       \* length of a list given to a batch operation

\* ------------------------------------------------------- program constants
DetectorPadding == 50
ForeheadKernel == 15
CheeksKernel == 20
MinimalTimeMs == 50

\* ------------------------------------------------------------------ images
Mat(r, c, p) == [rows |-> r, cols |-> c, px |-> p]

EmptyMat == Mat(0, 0, << >>)

Empty(m) == m.rows = 0 \/ m.cols = 0

Fill(r, c, v) == Mat(r, c, [i \in 1..(r * c) |-> v])

Zeros(r, c) == IF r = 0 \/ c = 0 THEN EmptyMat ELSE Fill(r, c, 0)

Clone(m) == m

At(m, y, x) == m.px[y * m.cols + x + 1]

SameSize(a, b) == a.rows = b.rows /\ a.cols = b.cols

Min(a, b) == IF a < b THEN a ELSE b

Max(a, b) == IF a > b THEN a ELSE b

\* image(rect).clone(): the sub-image at (x, y) of size w x h
Roi(m, x, y, w, h) ==
    IF w <= 0 \/ h <= 0 THEN EmptyMat
    ELSE Mat(h, w, [i \in 1..(h * w) |->
                      At(m, y + ((i - 1) \div w), x + ((i - 1) % w))])

\* ------------------------------------------------------------ face parser
\* a selection that keeps the label's value instead of writing 255
InRangeKeepsLabel(m, lo, hi) ==
    Mat(m.rows, m.cols,
        [i \in 1..Len(m.px) |-> IF lo <= m.px[i] /\ m.px[i] <= hi THEN m.px[i] ELSE 0])

\* cv::inRange asserts that its source is not empty (CV_Assert throws a
\* cv::Exception)
InRangeThrows(m) == Empty(m)

\* cv::inRange: 255 where lo <= v <= hi, else 0
InRange(m, lo, hi) ==
    Mat(m.rows, m.cols,
        [i \in 1..Len(m.px) |-> IF lo <= m.px[i] /\ m.px[i] <= hi THEN 255 ELSE 0])

\* bit by bit, on the 8-bit pixel values
RECURSIVE OrBits(_, _)
OrBits(a, b) ==
    IF a = 0 /\ b = 0 THEN 0
    ELSE (IF a % 2 = 1 \/ b % 2 = 1 THEN 1 ELSE 0) + 2 * OrBits(a \div 2, b \div 2)

RECURSIVE AndBits(_, _)
AndBits(a, b) ==
    IF a = 0 \/ b = 0 THEN 0
    ELSE (IF a % 2 = 1 /\ b % 2 = 1 THEN 1 ELSE 0) + 2 * AndBits(a \div 2, b \div 2)

BitwiseOr(a, b) ==
    Mat(a.rows, a.cols, [i \in 1..Len(a.px) |-> OrBits(a.px[i], b.px[i])])

BitwiseAnd(a, b) ==
    Mat(a.rows, a.cols, [i \in 1..Len(a.px) |-> AndBits(a.px[i], b.px[i])])

BitwiseNot(a) == Mat(a.rows, a.cols, [i \in 1..Len(a.px) |-> 255 - a.px[i]])

\* cv::dilate with a k x k MORPH_RECT element anchored at its centre (k \div 2):
\* the maximum of the source over the window, pixels outside the image ignored
Dilate(m, k) ==
    LET a == k \div 2
        Window(y, x) == {<<yy, xx>> \in (0..(m.rows - 1)) \X (0..(m.cols - 1)) :
                            /\ y - a <= yy /\ yy <= y - a + k - 1
                            /\ x - a <= xx /\ xx <= x - a + k - 1}
        Values(y, x) == {At(m, p[1], p[2]) : p \in Window(y, x)}
    IN  Mat(m.rows, m.cols,
            [i \in 1..Len(m.px) |->
                LET vs == Values((i - 1) \div m.cols, (i - 1) % m.cols)
                IN  CHOOSE v \in vs : \A u \in vs : u <= v])

RECURSIVE OrRegions(_, _, _)
OrRegions(full_mask, region_indices, region_mask) ==
    IF region_indices = << >> THEN region_mask
    ELSE OrRegions(full_mask, Tail(region_indices),
                   BitwiseOr(region_mask,
                             InRange(full_mask, Head(region_indices), Head(region_indices))))

GetRegionMask(full_mask, region_indices) ==
    IF Empty(full_mask) THEN EmptyMat
    ELSE OrRegions(full_mask, region_indices, Zeros(full_mask.rows, full_mask.cols))

\* an eye selection that also takes the left eyebrow
GetEyesMaskWithBrow(full_mask) == GetRegionMask(full_mask, <<4, 5, 6>>)

GetEyesMask(full_mask) == GetRegionMask(full_mask, <<4, 5>>)

\* a forehead that dilates the eyebrows with the cheeks' kernel
GetForeheadMaskWide(full_mask) ==
    LET skin_mask == InRange(full_mask, 1, 1)
        brow_mask == InRange(full_mask, 6, 7)
        dilated_brow == Dilate(brow_mask, CheeksKernel)
    IN  BitwiseAnd(skin_mask, dilated_brow)

GetForeheadMask(full_mask) ==
    LET skin_mask == InRange(full_mask, 1, 1)
        brow_mask == InRange(full_mask, 6, 7)
        dilated_brow == Dilate(brow_mask, ForeheadKernel)
    IN  BitwiseAnd(skin_mask, dilated_brow)

GetCheeksMask(full_mask) ==
    LET skin_mask == InRange(full_mask, 1, 1)
        nose_mask == InRange(full_mask, 2, 2)
        mouth_mask == InRange(full_mask, 10, 12)
        central_mask == BitwiseOr(nose_mask, mouth_mask)
        dilated_central == Dilate(central_mask, CheeksKernel)
    IN  BitwiseAnd(skin_mask, BitwiseNot(dilated_central))

GetMouthMask(full_mask) == GetRegionMask(full_mask, <<10, 11, 12>>)

GetJawMask(full_mask) ==
    LET skin_mask == InRange(full_mask, 1, 1)
        start_row == (full_mask.rows * 6) \div 10
        lower_mask == Mat(full_mask.rows, full_mask.cols,
                          [i \in 1..Len(full_mask.px) |->
                              IF (i - 1) \div full_mask.cols >= start_row THEN 255 ELSE 0])
    IN  BitwiseAnd(skin_mask, lower_mask)

GetNeckMask(full_mask) == GetRegionMask(full_mask, <<17>>)

GetHairMask(full_mask) == GetRegionMask(full_mask, <<13>>)

GetEyebrowsMask(full_mask) == GetRegionMask(full_mask, <<6, 7>>)

\* parseFace: the label map of a crop. net_label is the class the network
\* assigns (argmax, resized back to the crop); an inference that throws is
\* caught and yields the all-zero map, the same map as class 0.
ParseFace(face_crop, model_loaded_, net_label) ==
    IF ~model_loaded_ \/ Empty(face_crop)
    THEN Zeros(face_crop.rows, face_crop.cols)
    ELSE Fill(face_crop.rows, face_crop.cols, net_label)

ParseFacesBatch(face_crops, model_loaded_, net_label) ==
    [i \in 1..Len(face_crops) |-> ParseFace(face_crops[i], model_loaded_, net_label)]

\* ---------------------------------------------------- feedforward generator
\* a conversion that keeps the low 8 bits instead of clamping
SaturateRoundWraps(num, den) ==
    LET q == num \div den
        r == num % den
        n == IF 2 * r < den THEN q
             ELSE IF 2 * r > den THEN q + 1
             ELSE IF q % 2 = 0 THEN q ELSE q + 1
    IN  n % 256

\* saturate_cast<uchar> of num/den: round half to even, then clamp to 0..255
SaturateRound(num, den) ==
    LET q == num \div den
        r == num % den
        n == IF 2 * r < den THEN q
             ELSE IF 2 * r > den THEN q + 1
             ELSE IF q % 2 = 0 THEN q ELSE q + 1
    IN  IF n < 0 THEN 0 ELSE IF n > 255 THEN 255 ELSE n

\* a weighted sum with the two weights exchanged
AddWeightedSwapped(src1, alpha, src2) ==
    Mat(src1.rows, src1.cols,
        [i \in 1..Len(src1.px) |->
            SaturateRound(src1.px[i] * (100 - alpha) + src2.px[i] * alpha, 100)])

\* cv::addWeighted(src1, alpha, src2, 1 - alpha, 0): strengths are in percent
AddWeighted(src1, alpha, src2) ==
    Mat(src1.rows, src1.cols,
        [i \in 1..Len(src1.px) |->
            SaturateRound(src1.px[i] * alpha + src2.px[i] * (100 - alpha), 100)])

\* ---- IEEE single precision, for the non-negative values blendRegion computes.
\* A float is m * 2^(-e) with m < 2^24, rounded to nearest, ties to even. A wide
\* intermediate value is kept as hi * 4096 + lo, so that no step leaves 32 bits.
F32(m, e) == [m |-> m, e |-> e]

\* how many low bits hi * 4096 + lo has beyond 24
RECURSIVE F32Excess(_, _)
F32Excess(hi, k) == IF hi < 4096 * 2^k THEN k ELSE F32Excess(hi, k + 1)

\* (hi * 4096 + lo) * 2^(-e), rounded to a float
F32Round(hi, lo, e) ==
    LET k == F32Excess(hi, 0)
    IN  IF k = 0 THEN F32(hi * 4096 + lo, e)
        ELSE LET q == hi * 2^(12 - k) + lo \div 2^k
                 r == lo % 2^k
                 half == 2^(k - 1)
                 n == IF r > half \/ (r = half /\ q % 2 = 1) THEN q + 1 ELSE q
             IN  IF n = 2^24 THEN F32(2^23, e - k - 1) ELSE F32(n, e - k)

\* the binary digits of num / den, up to a 24-bit mantissa
RECURSIVE F32Digits(_, _, _, _)
F32Digits(num, den, m, e) ==
    IF m >= 2^23 THEN [rem |-> num, m |-> m, e |-> e]
    ELSE LET bit == IF 2 * num >= den THEN 1 ELSE 0
         IN  F32Digits(2 * num - den * bit, den, 2 * m + bit, e + 1)

\* the float literal num/den (0.8f is F32Literal(8, 10)), 0 < num < den
F32Literal(num, den) ==
    LET d == F32Digits(num, den, 0, 0)
        n == IF 2 * d.rem > den \/ (2 * d.rem = den /\ d.m % 2 = 1)
             THEN d.m + 1 ELSE d.m
    IN  IF n = 2^24 THEN F32(2^23, d.e - 1) ELSE F32(n, d.e)

\* 1.0f - f
F32OneMinus(f) ==
    LET n == 2^f.e - f.m
    IN  F32Round(n \div 4096, n % 4096, f.e)

\* pixel * f, the pixel value converted to float exactly
F32Times(pixel, f) ==
    LET a == pixel * (f.m \div 4096)
        b == pixel * (f.m % 4096)
    IN  F32Round(a + b \div 4096, b % 4096, f.e)

\* z.m * 2^(e - z.e) as <<hi, lo>>, e >= z.e
F32Split(z, e) ==
    LET d == e - z.e
    IN  IF d > 12 THEN <<z.m * 2^(d - 12), 0>>
        ELSE <<z.m \div 2^(12 - d), (z.m % 2^(12 - d)) * 2^d>>

F32Plus(x, y) ==
    LET e == Max(x.e, y.e)
        a == F32Split(x, e)
        b == F32Split(y, e)
        lo == a[2] + b[2]
    IN  F32Round(a[1] + b[1] + lo \div 4096, lo % 4096, e)

\* static_cast<uchar> of a float in 0..255: truncation
F32Truncate(f) == f.m \div 2^f.e

\* blendRegion: aged_strength is a float; mask_norm > 0.5f is mask > 127
BlendRegion(original, aged, mask, aged_strength) ==
    IF Empty(mask) THEN aged
    ELSE Mat(aged.rows, aged.cols,
             [i \in 1..Len(aged.px) |->
                 IF mask.px[i] > 127
                 THEN F32Truncate(F32Plus(F32Times(original.px[i],
                                                   F32OneMinus(aged_strength)),
                                          F32Times(aged.px[i], aged_strength)))
                 ELSE aged.px[i]])

\* a hair strength that ignores enable_hair_aging
HairStrengthAlwaysAged(controls) == F32Literal(8, 10)

\* the strength applyRegionalBlending gives the hair region
HairStrength(controls) ==
    IF controls.enable_hair_aging THEN F32Literal(8, 10) ELSE F32Literal(1, 10)

\* the region masks applyRegionalBlending extracts from the parsing mask
HairMask(parsing_mask) == InRange(parsing_mask, 1, 1)

EyeMask(parsing_mask) == InRange(parsing_mask, 3, 4)

MouthMask(parsing_mask) == InRange(parsing_mask, 5, 6)

\* region blends that start with the mouth and end with the hair
RegionStagesMouthFirst(original, aged, parsing_mask, controls) ==
    LET a1 == BlendRegion(original, aged, MouthMask(parsing_mask), F32Literal(4, 10))
        a2 == BlendRegion(original, a1, EyeMask(parsing_mask), F32Literal(3, 10))
    IN  <<a1, a2,
          BlendRegion(original, a2, HairMask(parsing_mask), HairStrength(controls))>>

\* the image aged after each of the three blendRegion calls, in call order
RegionStages(original, aged, parsing_mask, controls) ==
    LET a1 == BlendRegion(original, aged, HairMask(parsing_mask), HairStrength(controls))
        a2 == BlendRegion(original, a1, EyeMask(parsing_mask), F32Literal(3, 10))
    IN  <<a1, a2,
          BlendRegion(original, a2, MouthMask(parsing_mask), F32Literal(4, 10))>>

ApplyRegionalBlending(original, aged, parsing_mask, controls) ==
    RegionStages(original, aged, parsing_mask, controls)[3]

\* What the network returns for a crop: "other_size" (an image of the network's
\* resolution, not the crop's) or "same_size". An inference that throws is
\* caught by the handler that catches addWeighted's size mismatch.
NetPixel == 40

NetOutput(net_out, face_crop) ==
    IF net_out = "same_size" THEN Fill(face_crop.rows, face_crop.cols, NetPixel)
    ELSE Fill(face_crop.rows + 1, face_crop.cols, NetPixel)

\* a soft failure that hands back a blank image instead of the crop
SoftFailBlank(face_crop) == Fill(1, 1, 0)

\* the generator's soft failure: the original crop, unchanged
SoftFail(face_crop) == Clone(face_crop)

\* a generateAgedFace whose handler keeps what was blended before the throw
GenerateAgedFaceUncaught(face_crop, controls, parsing_mask, model_loaded_, net) ==
    IF ~model_loaded_ \/ Empty(face_crop) \/ net.fault = "inference"
       \/ ~SameSize(face_crop, net.image)
    THEN SoftFail(face_crop)
    ELSE AddWeighted(face_crop, controls.identity_lock_strength, net.image)

\* generateAgedFace, given what happens inside its try block: net.fault is
\* "inference" when the network throws, "blend" when applyRegionalBlending
\* throws, "none" otherwise; net.image is the denormalized network output.
GenerateAgedFaceFrom(face_crop, controls, parsing_mask, model_loaded_, net) ==
    IF ~model_loaded_ \/ Empty(face_crop) THEN SoftFail(face_crop)
    ELSE IF net.fault = "inference" THEN SoftFail(face_crop)
    ELSE LET result_uint8 == net.image
         IN  IF ~SameSize(face_crop, result_uint8)
             THEN SoftFail(face_crop)    \* addWeighted throws, caught at line 87
             ELSE LET final_result == AddWeighted(face_crop,
                                                  controls.identity_lock_strength,
                                                  result_uint8)
                  IN  IF Empty(parsing_mask) THEN final_result
                      ELSE IF net.fault = "blend" THEN SoftFail(face_crop)
                      ELSE ApplyRegionalBlending(face_crop, final_result,
                                                 parsing_mask, controls)

GenerateAgedFace(face_crop, controls, parsing_mask, model_loaded_, net_out) ==
    GenerateAgedFaceFrom(face_crop, controls, parsing_mask, model_loaded_,
                         [fault |-> "none", image |-> NetOutput(net_out, face_crop)])

\* generateAgedFacesBatch. A crop beyond the controls list takes controls[0],
\* which on an empty list is a read outside the vector: stray tells what that
\* read does, end the process or yield some AgeControls. A crop beyond the
\* masks list takes an empty mask.
RECURSIVE GenerateAgedFacesBatch(_, _, _, _, _, _, _, _)
GenerateAgedFacesBatch(face_crops, controls, parsing_masks, model_loaded_, net_out, stray, i, out) ==
    IF i > Len(face_crops) THEN out
    ELSE LET outside == i > Len(controls) /\ controls = << >>
             ctrl == IF i <= Len(controls) THEN controls[i]
                     ELSE IF outside THEN stray.controls ELSE controls[1]
             mask == IF i <= Len(parsing_masks) THEN parsing_masks[i] ELSE EmptyMat
         IN  IF outside /\ stray.crash
             THEN [out EXCEPT !.outside = TRUE, !.crashed = TRUE]
             ELSE GenerateAgedFacesBatch(
                      face_crops, controls, parsing_masks, model_loaded_, net_out,
                      stray, i + 1,
                      [out EXCEPT !.outside = @ \/ outside,
                                  !.results = Append(@, GenerateAgedFace(
                                      face_crops[i], ctrl, mask, model_loaded_, net_out))])

\* ------------------------------------------------------------ age estimator
\* estimateAge: net_age is the network's prediction, clamped to 0..100
EstimateAge(face_crop, model_loaded_, net_age) ==
    IF ~model_loaded_ \/ Empty(face_crop) THEN 0
    ELSE Max(0, Min(100, net_age))

EstimateAgeBatch(face_crops, model_loaded_, net_age) ==
    [i \in 1..Len(face_crops) |-> EstimateAge(face_crops[i], model_loaded_, net_age)]

\* --------------------------------------------------------- diffusion editor
\* DiffusionEditor::generateAgedFace: a crop of the input's size, the original
\* crop when the model is not loaded or the inference fails.
DiffusionPixel == 90

DiffusionGenerateAgedFace(face_crop, controls, parsing_mask, model_loaded_, net_out) ==
    IF ~model_loaded_ \/ Empty(face_crop) \/ net_out # "same_size" THEN Clone(face_crop)
    ELSE Fill(face_crop.rows, face_crop.cols, DiffusionPixel)

\* ------------------------------------------------------------ face detector
Box(x, y, w, h) == [x |-> x, y |-> y, width |-> w, height |-> h, den |-> 1]

Face(box, crop, id) == [box |-> box, aligned_crop |-> crop, face_id |-> id]

DetectorMaxFaces == 10

\* The boxes the network reports for an image, after thresholding and NMS
DetectedBoxes(net_boxes) ==
    CASE net_boxes = "one" -> <<Box(0, 0, 1, 1)>>
      [] net_boxes = "two" -> <<Box(0, 0, 1, 1), Box(1, 0, 1, 1)>>
      [] OTHER -> << >>

CropRect(image, b) ==
    LET x0 == Max(0, b.x - DetectorPadding)
        y0 == Max(0, b.y - DetectorPadding)
    IN  [x |-> x0, y |-> y0,
         width |-> Min(image.cols - x0, b.width + 2 * DetectorPadding),
         height |-> Min(image.rows - y0, b.height + 2 * DetectorPadding)]

ValidRoi(image, r) ==
    /\ 0 <= r.x /\ 0 <= r.width /\ r.x + r.width <= image.cols
    /\ 0 <= r.y /\ 0 <= r.height /\ r.y + r.height <= image.rows

\* The loop over the kept detections; an invalid crop rectangle throws and the
\* catch returns the faces pushed so far.
RECURSIVE BuildFaces(_, _, _, _)
BuildFaces(image, boxes, i, faces) ==
    IF i > Len(boxes) \/ i > DetectorMaxFaces THEN faces
    ELSE LET r == CropRect(image, boxes[i])
         IN  IF ~ValidRoi(image, r) THEN faces
             ELSE BuildFaces(image, boxes, i + 1,
                             Append(faces, Face(boxes[i],
                                                Roi(image, r.x, r.y, r.width, r.height),
                                                i - 1)))

DetectFaces(image, model_loaded_, net_boxes) ==
    IF ~model_loaded_ \/ Empty(image) THEN << >>
    ELSE BuildFaces(image, DetectedBoxes(net_boxes), 1, << >>)

\* --------------------------------------------------------------- compositor
\* Compositor, modelled from its contract: the class is declared in
\* compositor.h and called by the engine and the tests, its implementation is
\* not part of the sources. BlendConfig is the state its four setters write;
\* feather radii are pixels, the detail strength is in percent.
BlendConfig(mode, radius, correct, strength) ==
    [mode |-> mode, feather_radius |-> radius, color_correction |-> correct,
     detail_strength |-> strength]

\* a freshly constructed compositor: flat placement
DefaultConfig == BlendConfig("linear", 0, FALSE, 0)

RECURSIVE SumAt(_, _)
SumAt(px, S) ==
    IF S = {} THEN 0
    ELSE LET i == CHOOSE j \in S : TRUE
         IN  px[i] + SumAt(px, S \ {i})

MeanAt(px, S) == SumAt(px, S) \div Cardinality(S)

\* the frame pixels (as indices into px) inside the face box
BoxPixels(target_frame, b) ==
    {i \in 1..Len(target_frame.px) :
        LET y == (i - 1) \div target_frame.cols
            x == (i - 1) % target_frame.cols
        IN  /\ b.x <= x /\ x < b.x + b.width
            /\ b.y <= y /\ y < b.y + b.height}

\* a compositor that paints an empty crop as a black box
CompositeFacePaintsEmpty(config, target_frame, processed_face, face_info) ==
    IF Empty(target_frame) THEN target_frame
    ELSE Mat(target_frame.rows, target_frame.cols,
             [i \in 1..Len(target_frame.px) |->
                 IF i \in BoxPixels(target_frame, face_info.box)
                 THEN (IF Empty(processed_face) THEN 0 ELSE processed_face.px[1])
                 ELSE target_frame.px[i]])

\* a compositor whose feathering reaches past the face box
CompositeFaceSpills(config, target_frame, processed_face, face_info) ==
    LET b == face_info.box
        r == config.feather_radius
        wide == [b EXCEPT !.x = b.x - r, !.width = b.width + 2 * r]
    IN  IF Empty(processed_face) \/ Empty(target_frame) THEN target_frame
        ELSE Mat(target_frame.rows, target_frame.cols,
                 [i \in 1..Len(target_frame.px) |->
                     IF i \in BoxPixels(target_frame, wide)
                     THEN processed_face.px[1]
                     ELSE target_frame.px[i]])

\* Compositor::compositeFace under a configuration. The crop is resized to the
\* face box and written over the part of the box that lies in the frame; an
\* empty crop or a box outside the frame changes nothing. Colour correction
\* shifts the crop to the mean of the frame under the box; detail reinjection
\* adds the original crop's deviation from its mean, scaled; feathering weighs
\* the placed pixel by its depth inside the box against the frame's pixel.
\* "poisson" is taken as the flat blend of the crop shifted to the frame's
\* mean, "multiband" as the flat blend at twice the radius; any other mode
\* string is "linear". Every written value saturates.
CompositeFaceWith(config, target_frame, processed_face, face_info) ==
    LET b == face_info.box
        original == face_info.aligned_crop
        overlap == BoxPixels(target_frame, b)
        Resized(m, y, x) == At(m, ((y - b.y) * m.rows) \div b.height,
                                  ((x - b.x) * m.cols) \div b.width)
        shift == IF config.color_correction \/ config.mode = "poisson"
                 THEN MeanAt(target_frame.px, overlap)
                      - MeanAt(processed_face.px, 1..Len(processed_face.px))
                 ELSE 0
        Detail(y, x) == IF Empty(original) \/ config.detail_strength = 0 THEN 0
                        ELSE Resized(original, y, x)
                             - MeanAt(original.px, 1..Len(original.px))
        radius == IF config.mode = "multiband" THEN 2 * config.feather_radius
                  ELSE config.feather_radius
        Depth(y, x) == Min(Min(x - b.x, b.x + b.width - 1 - x),
                           Min(y - b.y, b.y + b.height - 1 - y))
        Alpha(y, x) == Min(100, (100 * (Depth(y, x) + 1)) \div (radius + 1))
        Placed(y, x) == SaturateRound(100 * (Resized(processed_face, y, x) + shift)
                                      + config.detail_strength * Detail(y, x), 100)
    IN  IF Empty(processed_face) \/ Empty(target_frame) \/ overlap = {}
        THEN target_frame
        ELSE Mat(target_frame.rows, target_frame.cols,
                 [i \in 1..Len(target_frame.px) |->
                     LET y == (i - 1) \div target_frame.cols
                         x == (i - 1) % target_frame.cols
                     IN  IF i \in overlap
                         THEN SaturateRound(Placed(y, x) * Alpha(y, x)
                                            + target_frame.px[i] * (100 - Alpha(y, x)),
                                            100)
                         ELSE target_frame.px[i]])

\* compositeFace as the engine calls it: on the compositor initialize()
\* constructed, whose setters the engine never calls
CompositeFace(target_frame, processed_face, face_info) ==
    CompositeFaceWith(DefaultConfig, target_frame, processed_face, face_info)

\* ------------------------------------------------------------------- engine
VARIABLES
    build,               \* which Engine::Impl is linked: "full" or "minimal"
    initialized_,
    processing_mode_,
    error_callback_,     \* TRUE when a callable error callback is set
    detector_loaded,     \* FaceDetector::Impl::model_loaded_
    estimator_loaded,    \* AgeEstimator's model_loaded_
    parser_loaded,       \* FaceParser::Impl::model_loaded_
    generator_loaded,    \* FeedforwardGenerator::Impl::model_loaded_
    diffusion_loaded,    \* DiffusionEditor's model
    pc,                  \* "idle", or "returned" after a call
    op,                  \* the call that returned
    ret,                 \* what a bool-returning call returned
    context,             \* the FrameContext of the last processFrame
    env,                 \* what the collaborators did during that call
    result,              \* the ProcessingResult it returned
    calls,               \* the component calls it made, in order
    full_mask,           \* the label map given to the region operations
    region,              \* the region operation applied to it
    region_mask,         \* the mask that operation returned
    region_thrown,       \* TRUE when it threw instead of returning
    gen_face_crop,       \* generateAgedFace's face_crop
    gen_controls,        \* its AgeControls
    gen_parsing_mask,    \* its parsing_mask
    gen_net,             \* what the network and the blend do during the call
    gen_result,          \* the crop it returned
    gen_done,            \* TRUE once it has returned
    comp_config,         \* the compositor's BlendConfig
    comp_frame,          \* compositeFace's target_frame before the call
    comp_face,           \* its processed_face
    comp_info,           \* its face_info
    comp_result,         \* target_frame after the call
    comp_done,           \* TRUE once it has returned
    pair_impl,           \* the Impl of each of several Engine instances
    pair_call,           \* the processFrame call each instance's thread is in
    batch_in,            \* the arguments of a batch operation
    batch_out            \* what it returned

engineVars == <<build, initialized_, processing_mode_, error_callback_,
                detector_loaded, estimator_loaded, parser_loaded,
                generator_loaded, diffusion_loaded>>

callVars == <<pc, op, ret, context, env, result, calls>>

maskVars == <<full_mask, region, region_mask, region_thrown>>

blendVars == <<gen_face_crop, gen_controls, gen_parsing_mask, gen_net,
               gen_result, gen_done>>

compVars == <<comp_config, comp_frame, comp_face, comp_info, comp_result,
              comp_done>>

pairVars == <<pair_impl, pair_call>>

batchVars == <<batch_in, batch_out>>

vars == <<engineVars, callVars, maskVars, blendVars, compVars, pairVars, batchVars>>

Modes == {"FEEDFORWARD", "DIFFUSION", "HYBRID", "AUTO"}

\* The collaborator calls of the loop that can throw into processFrame's catch:
\* parseFace, the feed-forward generateAgedFace and detectFaces catch every
\* std::exception themselves; the diffusion editor and the compositor do not
\* promise to.
Steps == {"transform", "composite"}

NoFault == [face |-> 0, step |-> "none"]

Result(frame, faces, metrics, success, msg) ==
    [output_frame |-> frame, processed_faces |-> faces, metrics |-> metrics,
     success |-> success, error_message |-> msg]

\* a default-constructed ProcessingResult; the full build's struct leaves
\* success unset, and every path through processFrame assigns it
NoResult == Result(EmptyMat, << >>, {}, FALSE, "")

MetricKeys(r) == {m[1] : m \in r.metrics}

Metric(r, key) == (CHOOSE m \in r.metrics : m[1] = key)[2]

\* ---- Engine::Impl::processFrame of engine.cpp
\* a refusal that forgets its message
NotInitializedNoMessage == Result(EmptyMat, << >>, {}, FALSE, "")

NotInitializedResult == Result(EmptyMat, << >>, {}, FALSE, "Engine not initialized")

\* a pass-through that forgets to copy the input
PassThroughNoCopy(c) == Result(EmptyMat, << >>, {}, TRUE, "")

\* a catch block that reports nothing
FailedNoMessage == Result(EmptyMat, << >>, {}, FALSE, "")

\* no face given and none detected: the input, copied
PassThroughResult(c) == Result(Clone(c.input_frame), << >>, {}, TRUE, "")

\* the catch block: a fresh result, the message prefixed to e.what()
FailedResult == Result(EmptyMat, << >>, {}, FALSE, "Processing failed: ")

CompletedResult(output_frame, faces, elapsed) ==
    Result(output_frame, faces,
           {<<"processing_time_ms", elapsed>>, <<"faces_processed", Len(faces)>>},
           TRUE, "")

\* the members of one Engine::Impl that processFrame reads
Impl(init, mode, detector, estimator, parser, generator, diffusion) ==
    [initialized_ |-> init, processing_mode_ |-> mode, detector_loaded |-> detector,
     estimator_loaded |-> estimator, parser_loaded |-> parser,
     generator_loaded |-> generator, diffusion_loaded |-> diffusion]

\* the Impl of the engine the calls of Spec are made on
ThisImpl == Impl(initialized_, processing_mode_, detector_loaded, estimator_loaded,
                 parser_loaded, generator_loaded, diffusion_loaded)

\* a loop that gives HYBRID faces to the feedforward generator
GeneratorOfHybridFeedforward(mode) ==
    IF mode = "DIFFUSION" THEN "diffusion" ELSE "feedforward"

\* the generator the loop calls for a face (lines 130-139): HYBRID has no branch
GeneratorOf(mode) ==
    IF mode \in {"FEEDFORWARD", "AUTO"} THEN "feedforward"
    ELSE IF mode = "DIFFUSION" THEN "diffusion"
    ELSE "none"

\* a loop that goes by the mode set with setProcessingMode
LoopModeOfEngine(impl, c) == impl.processing_mode_

\* the mode the loop goes by: the context's, the member processing_mode_ is
\* not read
LoopMode(impl, c) == c.mode

\* The loop over the faces from face i on. e.fault names the face and the step
\* at which the diffusion editor or the compositor throws a std::exception.
RECURSIVE RunFacesOf(_, _, _, _, _, _, _)
RunFacesOf(impl, faces, i, output_frame, log, c, e) ==
    IF i > Len(faces) THEN [frame |-> output_frame, log |-> log, thrown |-> FALSE]
    ELSE
      LET face == faces[i]
          Throws(step) == e.fault.face = i /\ e.fault.step = step
          log1 == Append(log, <<"parseFace", i>>)
          parsing_mask == ParseFace(face.aligned_crop, impl.parser_loaded, e.net_label)
          feedforward == GeneratorOf(LoopMode(impl, c)) = "feedforward"
          diffusion == GeneratorOf(LoopMode(impl, c)) = "diffusion"
          log2 == IF feedforward THEN Append(log1, <<"feedforward", i>>)
                  ELSE IF diffusion THEN Append(log1, <<"diffusion", i>>)
                  ELSE log1
          processed_face ==
              IF feedforward
              THEN GenerateAgedFace(face.aligned_crop, c.controls, parsing_mask,
                                    impl.generator_loaded, e.net_out)
              ELSE IF diffusion
              THEN DiffusionGenerateAgedFace(face.aligned_crop, c.controls, parsing_mask,
                                             impl.diffusion_loaded, e.net_out)
              ELSE EmptyMat
          log3 == Append(log2, <<"compositeFace", i>>)
      IN  IF Throws("transform") /\ diffusion
          THEN [frame |-> output_frame, log |-> log2, thrown |-> TRUE]
          ELSE IF Throws("composite")
          THEN [frame |-> output_frame, log |-> log3, thrown |-> TRUE]
          ELSE RunFacesOf(impl, faces, i + 1,
                          CompositeFace(output_frame, processed_face, face), log3, c, e)

RunFaces(faces, i, output_frame, log, c, e) ==
    RunFacesOf(ThisImpl, faces, i, output_frame, log, c, e)

\* processFrame on the engine whose Impl is impl
ProcessFrameOf(impl, c, e) ==
    IF ~impl.initialized_
    THEN [result |-> NotInitializedResult, log |-> << >>]
    ELSE
      LET detect == c.detected_faces = << >>
          faces == IF detect
                   THEN DetectFaces(c.input_frame, impl.detector_loaded, e.net_boxes)
                   ELSE c.detected_faces
          log0 == IF detect THEN <<<<"detectFaces", 0>>>> ELSE << >>
      IN  IF faces = << >>
          THEN [result |-> PassThroughResult(c), log |-> log0]
          ELSE
            LET run == RunFacesOf(impl, faces, 1, Clone(c.input_frame), log0, c, e)
            IN  IF run.thrown
                THEN [result |-> FailedResult, log |-> run.log]
                ELSE [result |-> CompletedResult(run.frame, faces, e.elapsed),
                      log |-> run.log]

ProcessFrameFull(c, e) == ProcessFrameOf(ThisImpl, c, e)

\* ---- Engine::Impl::processFrame of minimal_engine.cpp
\* The mock face's box is a quarter of the frame in, half the frame in size.
MockFace(c) ==
    Face([x |-> c.input_frame.cols, y |-> c.input_frame.rows,
          width |-> 2 * c.input_frame.cols, height |-> 2 * c.input_frame.rows,
          den |-> 4],
         EmptyMat, 1)

ProcessFrameMinimal(c) ==
    IF ~initialized_
    THEN [result |-> Result(EmptyMat, << >>, {}, FALSE, "Engine not initialized"),
          log |-> << >>]
    ELSE IF Empty(c.input_frame)
    THEN [result |-> Result(EmptyMat, << >>, {}, FALSE, "Empty input frame"),
          log |-> << >>]
    ELSE [result |-> Result(c.input_frame, <<MockFace(c)>>,
                            {<<"processing_time_ms", MinimalTimeMs>>,
                             <<"face_count", 1>>,
                             <<"confidence", 9>>},       \* 0.9, in tenths
                            TRUE, ""),
          log |-> << >>]

\* ------------------------------------------------------------------- inputs
FrameOf(c) == IF c = 0 THEN EmptyMat ELSE Mat(1, c, [i \in 1..c |-> 100 + i])

Frames == {FrameOf(c) : c \in 0..MaxCols}

Crops == {EmptyMat, Fill(1, 1, 200)}

Boxes == {Box(x, 0, 1, 1) : x \in {0, 1}}

Faces == {Face(b, cr, 0) : b \in Boxes, cr \in Crops}

FaceLists == UNION {[1..n -> Faces] : n \in 0..MaxFaces}

Controls == {[target_age |-> 45, identity_lock_strength |-> 70,
              enable_hair_aging |-> TRUE]}

Contexts == [input_frame : Frames, detected_faces : FaceLists,
             controls : Controls, mode : Modes]

NoContext == [input_frame |-> EmptyMat, detected_faces |-> << >>,
              controls |-> CHOOSE k \in Controls : TRUE, mode |-> "FEEDFORWARD"]

NetBoxes == {"none", "one", "two"}
NetLabels == {0, 1}
NetOuts == {"other_size", "same_size"}
Elapsed == {0, 16}

\* The diffusion editor may throw at a face's transform step, the compositor
\* at its composite step. A HYBRID call hands the compositor empty crops only,
\* for which compositeFace returns at once: no step of such a call throws.
Faults(c) ==
    {NoFault} \cup
    [face : 1..Len(c.detected_faces),
     step : IF c.mode = "DIFFUSION" THEN Steps
            ELSE IF c.mode = "HYBRID" THEN {}
            ELSE {"composite"}]

\* What the collaborators may do during one call: a choice is offered only
\* where the call can read it.
Envs(c) ==
    LET running == build = "full" /\ initialized_
        given == c.detected_faces # << >>
        feedforward == c.mode \in {"FEEDFORWARD", "AUTO"} /\ generator_loaded
        diffusion == c.mode = "DIFFUSION" /\ diffusion_loaded
    IN  [net_boxes : IF running /\ detector_loaded /\ ~given
                     THEN NetBoxes ELSE {"none"},
         net_label : IF running /\ parser_loaded /\ feedforward
                     THEN NetLabels ELSE {0},
         net_out : IF running /\ (feedforward \/ diffusion)
                   THEN NetOuts ELSE {"other_size"},
         fault : IF running THEN Faults(c) ELSE {NoFault},
         elapsed : Elapsed]

NoEnv == [net_boxes |-> "none", net_label |-> 0, net_out |-> "other_size",
          fault |-> NoFault, elapsed |-> CHOOSE t \in Elapsed : TRUE]

\* ---- the generator called on its own
NoNet == [fault |-> "none", image |-> EmptyMat]

NoControls == [target_age |-> 45, identity_lock_strength |-> 70,
               enable_hair_aging |-> TRUE, region_strengths |-> 0]

\* no generateAgedFace call of its own is under way
BlendIdle ==
    /\ gen_face_crop = EmptyMat
    /\ gen_controls = NoControls
    /\ gen_parsing_mask = EmptyMat
    /\ gen_net = NoNet
    /\ gen_result = EmptyMat
    /\ gen_done = FALSE

\* ---- the compositor called on its own
NoFace == Face(Box(0, 0, 1, 1), EmptyMat, 0)

\* no compositeFace call of its own is under way
CompIdle ==
    /\ comp_config = DefaultConfig
    /\ comp_frame = EmptyMat
    /\ comp_face = EmptyMat
    /\ comp_info = NoFace
    /\ comp_result = EmptyMat
    /\ comp_done = FALSE

\* ---- several engines, one thread each
Instances == {1, 2}

\* a freshly constructed Impl (engine.cpp 19-20)
NewImpl == Impl(FALSE, "FEEDFORWARD", FALSE, FALSE, FALSE, FALSE, FALSE)

NoCall == [pc |-> "idle", context |-> NoContext, env |-> NoEnv,
           snapshot |-> NewImpl, result |-> NoResult]

PairIdle ==
    /\ pair_impl = [i \in Instances |-> NewImpl]
    /\ pair_call = [i \in Instances |-> NoCall]

\* ---- the batch operations
NoBatch == [op |-> "none", face_crops |-> << >>, controls |-> << >>,
            parsing_masks |-> << >>, loaded |-> FALSE, net_label |-> 0,
            net_age |-> 0, stray |-> [crash |-> FALSE, controls |-> NoControls]]

NoBatchResult == [done |-> FALSE, results |-> << >>, outside |-> FALSE,
                  crashed |-> FALSE]

BatchIdle ==
    /\ batch_in = NoBatch
    /\ batch_out = NoBatchResult

\* ------------------------------------------------------------------ actions
Returned(name, value) ==
    /\ pc' = "returned"
    /\ op' = name
    /\ ret' = value

NoFrameCall ==
    /\ context' = NoContext
    /\ env' = NoEnv
    /\ result' = NoResult
    /\ calls' = << >>

\* Engine::initialize. gpu_ok is GPUMemoryManager::initialize's answer; on
\* success the full build constructs fresh components, none with a model.
Initialize(gpu_ok) ==
    /\ pc = "idle"
    /\ IF build = "minimal"
       THEN /\ initialized_' = TRUE
            /\ UNCHANGED <<detector_loaded, estimator_loaded, parser_loaded,
                           generator_loaded, diffusion_loaded>>
            /\ Returned("initialize", "true")
       ELSE IF gpu_ok
       THEN /\ initialized_' = TRUE
            /\ detector_loaded' = FALSE
            /\ estimator_loaded' = FALSE
            /\ parser_loaded' = FALSE
            /\ generator_loaded' = FALSE
            /\ diffusion_loaded' = FALSE
            /\ Returned("initialize", "true")
       ELSE /\ UNCHANGED <<initialized_, detector_loaded, estimator_loaded,
                           parser_loaded, generator_loaded, diffusion_loaded>>
            /\ Returned("initialize", "false")
    /\ NoFrameCall
    /\ UNCHANGED <<build, processing_mode_, error_callback_, maskVars, blendVars, compVars, pairVars, batchVars>>

\* Engine::loadModels. n is how many of the four required models load before
\* one fails (4: all load); dif_ok is the diffusion model's answer. Reporting
\* a failure calls error_callback_, which throws std::bad_function_call
\* when no callback is set.
LoadModels(n, dif_ok) ==
    /\ pc = "idle"
    /\ IF build = "minimal"
       THEN /\ UNCHANGED <<detector_loaded, estimator_loaded, parser_loaded,
                           generator_loaded, diffusion_loaded>>
            /\ Returned("loadModels", IF initialized_ THEN "true" ELSE "false")
       ELSE IF ~initialized_
       THEN /\ UNCHANGED <<detector_loaded, estimator_loaded, parser_loaded,
                           generator_loaded, diffusion_loaded>>
            /\ Returned("loadModels", IF error_callback_ THEN "false" ELSE "throws")
       ELSE /\ detector_loaded' = (detector_loaded \/ n >= 1)
            /\ estimator_loaded' = (estimator_loaded \/ n >= 2)
            /\ parser_loaded' = (parser_loaded \/ n >= 3)
            /\ generator_loaded' = (generator_loaded \/ n >= 4)
            /\ diffusion_loaded' = (diffusion_loaded \/ (n >= 4 /\ dif_ok))
            /\ Returned("loadModels",
                        IF n >= 4 THEN "true"
                        ELSE IF error_callback_ THEN "false" ELSE "throws")
    /\ NoFrameCall
    /\ UNCHANGED <<build, initialized_, processing_mode_, error_callback_, maskVars, blendVars, compVars, pairVars, batchVars>>

SetProcessingMode(mode) ==
    /\ pc = "idle"
    /\ processing_mode_' = mode
    /\ Returned("setProcessingMode", "void")
    /\ NoFrameCall
    /\ UNCHANGED <<build, initialized_, error_callback_, detector_loaded,
                   estimator_loaded, parser_loaded, generator_loaded,
                   diffusion_loaded, maskVars, blendVars, compVars, pairVars, batchVars>>

SetErrorCallback(callable) ==
    /\ pc = "idle"
    /\ build = "full"
    /\ error_callback_' = callable
    /\ Returned("setErrorCallback", "void")
    /\ NoFrameCall
    /\ UNCHANGED <<build, initialized_, processing_mode_, detector_loaded,
                   estimator_loaded, parser_loaded, generator_loaded,
                   diffusion_loaded, maskVars, blendVars, compVars, pairVars, batchVars>>

\* Engine::shutdown, defined by the minimal build only
Shutdown ==
    /\ pc = "idle"
    /\ build = "minimal"
    /\ initialized_' = FALSE
    /\ Returned("shutdown", "void")
    /\ NoFrameCall
    /\ UNCHANGED <<build, processing_mode_, error_callback_, detector_loaded,
                   estimator_loaded, parser_loaded, generator_loaded,
                   diffusion_loaded, maskVars, blendVars, compVars, pairVars, batchVars>>

ProcessFrameCall(c, e) ==
    /\ LET out == IF build = "full" THEN ProcessFrameFull(c, e)
                  ELSE ProcessFrameMinimal(c)
       IN  /\ result' = out.result
           /\ calls' = out.log
    /\ context' = c
    /\ env' = e
    /\ Returned("processFrame", "result")
    /\ UNCHANGED <<engineVars, maskVars, blendVars, compVars, pairVars, batchVars>>

ProcessFrame ==
    /\ pc = "idle"
    /\ \E c \in Contexts : \E e \in Envs(c) : ProcessFrameCall(c, e)

\* the caller takes the returned value
Return ==
    /\ pc = "returned"
    /\ pc' = "idle"
    /\ op' = "none"
    /\ ret' = "none"
    /\ NoFrameCall
    /\ UNCHANGED <<engineVars, maskVars, blendVars, compVars, pairVars, batchVars>>

Init ==
    /\ build \in {"full", "minimal"}
    /\ initialized_ = FALSE
    /\ processing_mode_ = "FEEDFORWARD"
    /\ error_callback_ = FALSE
    /\ detector_loaded = FALSE
    /\ estimator_loaded = FALSE
    /\ parser_loaded = FALSE
    /\ generator_loaded = FALSE
    /\ diffusion_loaded = FALSE
    /\ pc = "idle"
    /\ op = "none"
    /\ ret = "none"
    /\ context = NoContext
    /\ env = NoEnv
    /\ result = NoResult
    /\ calls = << >>
    /\ full_mask = EmptyMat
    /\ region = "none"
    /\ region_mask = EmptyMat
    /\ region_thrown = FALSE
    /\ BlendIdle
    /\ CompIdle
    /\ PairIdle
    /\ BatchIdle

Next ==
    \/ \E gpu_ok \in BOOLEAN : Initialize(gpu_ok)
    \/ \E n \in 0..4, dif_ok \in BOOLEAN : LoadModels(n, dif_ok)
    \/ \E mode \in Modes : SetProcessingMode(mode)
    \/ \E callable \in BOOLEAN : SetErrorCallback(callable)
    \/ Shutdown
    \/ ProcessFrame
    \/ Return

Spec == Init /\ [][Next]_vars

\* ------------------------------------------------------- region operations
\* The label maps given to the region operations: the empty map, every shape
\* of at most MaxMaskCells pixels in one row or one column, over vocabulary ids
\* and ids outside the vocabulary (19, 255), and the long strips.
MaskLabels == {0, 1, 2, 4, 6, 10, 13, 17, 19, 255}

ShortMaps ==
    UNION {{Mat(1, n, p) : p \in [1..n -> MaskLabels]} \cup
           {Mat(n, 1, p) : p \in [1..n -> MaskLabels]} : n \in 1..MaxMaskCells}

\* strips of MaxStrip pixels of skin and background around one eyebrow pixel
BrowStrips ==
    LET cells == {[p EXCEPT ![k] = b] : p \in [1..MaxStrip -> {0, 1}],
                                       k \in 1..MaxStrip, b \in {6, 7}}
    IN  {Mat(1, MaxStrip, p) : p \in cells} \cup {Mat(MaxStrip, 1, p) : p \in cells}

LabelMaps == {EmptyMat} \cup ShortMaps \cup BrowStrips

\* The region operations are const and keep no state: a behaviour applies one
\* of them to its label map.

GetEyesMaskCall ==
    /\ region = "none"
    /\ region' = "eyes"
    /\ region_mask' = GetEyesMask(full_mask)
    /\ region_thrown' = FALSE
    /\ UNCHANGED <<full_mask, engineVars, callVars, blendVars, compVars, pairVars, batchVars>>

GetEyebrowsMaskCall ==
    /\ region = "none"
    /\ region' = "eyebrows"
    /\ region_mask' = GetEyebrowsMask(full_mask)
    /\ region_thrown' = FALSE
    /\ UNCHANGED <<full_mask, engineVars, callVars, blendVars, compVars, pairVars, batchVars>>

GetForeheadMaskCall ==
    /\ region = "none"
    /\ region' = "forehead"
    /\ region_thrown' = InRangeThrows(full_mask)
    /\ region_mask' = IF InRangeThrows(full_mask) THEN EmptyMat
                      ELSE GetForeheadMask(full_mask)
    /\ UNCHANGED <<full_mask, engineVars, callVars, blendVars, compVars, pairVars, batchVars>>

GetCheeksMaskCall ==
    /\ region = "none"
    /\ region' = "cheeks"
    /\ region_thrown' = InRangeThrows(full_mask)
    /\ region_mask' = IF InRangeThrows(full_mask) THEN EmptyMat
                      ELSE GetCheeksMask(full_mask)
    /\ UNCHANGED <<full_mask, engineVars, callVars, blendVars, compVars, pairVars, batchVars>>

GetMouthMaskCall ==
    /\ region = "none"
    /\ region' = "mouth"
    /\ region_mask' = GetMouthMask(full_mask)
    /\ region_thrown' = FALSE
    /\ UNCHANGED <<full_mask, engineVars, callVars, blendVars, compVars, pairVars, batchVars>>

GetJawMaskCall ==
    /\ region = "none"
    /\ region' = "jaw"
    /\ region_thrown' = InRangeThrows(full_mask)
    /\ region_mask' = IF InRangeThrows(full_mask) THEN EmptyMat
                      ELSE GetJawMask(full_mask)
    /\ UNCHANGED <<full_mask, engineVars, callVars, blendVars, compVars, pairVars, batchVars>>

GetNeckMaskCall ==
    /\ region = "none"
    /\ region' = "neck"
    /\ region_mask' = GetNeckMask(full_mask)
    /\ region_thrown' = FALSE
    /\ UNCHANGED <<full_mask, engineVars, callVars, blendVars, compVars, pairVars, batchVars>>

GetHairMaskCall ==
    /\ region = "none"
    /\ region' = "hair"
    /\ region_mask' = GetHairMask(full_mask)
    /\ region_thrown' = FALSE
    /\ UNCHANGED <<full_mask, engineVars, callVars, blendVars, compVars, pairVars, batchVars>>

InitMask ==
    /\ build = "full"
    /\ initialized_ = FALSE
    /\ processing_mode_ = "FEEDFORWARD"
    /\ error_callback_ = FALSE
    /\ detector_loaded = FALSE
    /\ estimator_loaded = FALSE
    /\ parser_loaded = FALSE
    /\ generator_loaded = FALSE
    /\ diffusion_loaded = FALSE
    /\ pc = "idle"
    /\ op = "none"
    /\ ret = "none"
    /\ context = NoContext
    /\ env = NoEnv
    /\ result = NoResult
    /\ calls = << >>
    /\ full_mask \in LabelMaps
    /\ region = "none"
    /\ region_mask = EmptyMat
    /\ region_thrown = FALSE
    /\ BlendIdle
    /\ CompIdle
    /\ PairIdle
    /\ BatchIdle

NextMask ==
    \/ GetEyesMaskCall
    \/ GetEyebrowsMaskCall
    \/ GetForeheadMaskCall
    \/ GetCheeksMaskCall
    \/ GetMouthMaskCall
    \/ GetJawMaskCall
    \/ GetNeckMaskCall
    \/ GetHairMaskCall

SpecMask == InitMask /\ [][NextMask]_vars

\* ------------------------------------------------- generateAgedFace alone
\* Crops are one row of at most MaxBlendCols pixels. identity_lock_strength is
\* in percent and is not validated by the code; region_strengths stands for
\* age_map.region_strengths, all eight set to the same percentage.
BlendPixels == {3, 200, 255}

NetPixels == {0, 40}

GenLabels == {0, 1, 3, 5, 13}

LockStrengths == {-50, 0, 70, 100, 150}

BlendControls ==
    [target_age : {45}, identity_lock_strength : LockStrengths,
     enable_hair_aging : BOOLEAN, region_strengths : {0, 100}]

\* the network's outcomes for a crop of n pixels
NetsFor(n) ==
    {[fault |-> "inference", image |-> EmptyMat],
     [fault |-> "none", image |-> Fill(1, n + 1, NetPixel)]}
    \cup [fault : {"none", "blend"}, image : {Mat(1, n, p) : p \in [1..n -> NetPixels]}]

\* the calls on crops of n pixels: the mask is empty or of the crop's size
GenCallsFor(n) ==
    [face_crop : {EmptyMat} \cup {Mat(1, n, p) : p \in [1..n -> BlendPixels]},
     controls : BlendControls,
     parsing_mask : {EmptyMat} \cup {Mat(1, n, p) : p \in [1..n -> GenLabels]},
     net : NetsFor(n)]

GenCalls == UNION {GenCallsFor(n) : n \in 1..MaxBlendCols}

GenerateAgedFaceCall ==
    /\ ~gen_done
    /\ gen_result' = GenerateAgedFaceFrom(gen_face_crop, gen_controls, gen_parsing_mask,
                                          generator_loaded, gen_net)
    /\ gen_done' = TRUE
    /\ UNCHANGED <<gen_face_crop, gen_controls, gen_parsing_mask, gen_net,
                   engineVars, callVars, maskVars, compVars, pairVars, batchVars>>

InitBlend ==
    /\ build = "full"
    /\ initialized_ = FALSE
    /\ processing_mode_ = "FEEDFORWARD"
    /\ error_callback_ = FALSE
    /\ detector_loaded = FALSE
    /\ estimator_loaded = FALSE
    /\ parser_loaded = FALSE
    /\ generator_loaded \in BOOLEAN
    /\ diffusion_loaded = FALSE
    /\ pc = "idle"
    /\ op = "none"
    /\ ret = "none"
    /\ context = NoContext
    /\ env = NoEnv
    /\ result = NoResult
    /\ calls = << >>
    /\ full_mask = EmptyMat
    /\ region = "none"
    /\ region_mask = EmptyMat
    /\ region_thrown = FALSE
    /\ \E call \in GenCalls :
           /\ gen_face_crop = call.face_crop
           /\ gen_controls = call.controls
           /\ gen_parsing_mask = call.parsing_mask
           /\ gen_net = call.net
    /\ gen_result = EmptyMat
    /\ gen_done = FALSE
    /\ CompIdle
    /\ PairIdle
    /\ BatchIdle

NextBlend == GenerateAgedFaceCall

SpecBlend == InitBlend /\ [][NextBlend]_vars

\* ---------------------------------------------------- the compositor alone
\* Frames are one row of at most MaxCompCols pixels; boxes lie inside, across
\* the border of, and outside the frame, to the left, right, above and below.
BlendModes == {"linear", "poisson", "multiband", "invalid_mode"}

FeatherRadii == {0, 2}

DetailStrengths == {-50, 0, 150}

CompFrames == {Mat(1, c, [i \in 1..c |-> 100 + 10 * i]) : c \in 1..MaxCompCols}

CompCrops == {EmptyMat, Fill(1, 1, 200), Mat(1, 2, <<250, 10>>)}

CompBoxes == {Box(x, y, w, h) : x \in -2..MaxCompCols, y \in {-1, 0, 1},
                                w \in 1..3, h \in {1, 2}}

CompFaces == {Face(b, Mat(1, 2, <<60, 180>>), 0) : b \in CompBoxes}

CompSetter(field, value) ==
    /\ ~comp_done
    /\ comp_config' = [comp_config EXCEPT ![field] = value]
    /\ UNCHANGED <<comp_frame, comp_face, comp_info, comp_result, comp_done,
                   engineVars, callVars, maskVars, blendVars, pairVars, batchVars>>

SetBlendingMode(mode) == CompSetter("mode", mode)

SetFeatherRadius(radius) == CompSetter("feather_radius", radius)

EnableColorCorrection(enable) == CompSetter("color_correction", enable)

SetDetailReinjectionStrength(strength) == CompSetter("detail_strength", strength)

CompositeFaceCall ==
    /\ ~comp_done
    /\ comp_result' = CompositeFaceWith(comp_config, comp_frame, comp_face, comp_info)
    /\ comp_done' = TRUE
    /\ UNCHANGED <<comp_config, comp_frame, comp_face, comp_info,
                   engineVars, callVars, maskVars, blendVars, pairVars, batchVars>>

InitComposite ==
    /\ build = "full"
    /\ initialized_ = FALSE
    /\ processing_mode_ = "FEEDFORWARD"
    /\ error_callback_ = FALSE
    /\ detector_loaded = FALSE
    /\ estimator_loaded = FALSE
    /\ parser_loaded = FALSE
    /\ generator_loaded = FALSE
    /\ diffusion_loaded = FALSE
    /\ pc = "idle"
    /\ op = "none"
    /\ ret = "none"
    /\ context = NoContext
    /\ env = NoEnv
    /\ result = NoResult
    /\ calls = << >>
    /\ full_mask = EmptyMat
    /\ region = "none"
    /\ region_mask = EmptyMat
    /\ region_thrown = FALSE
    /\ BlendIdle
    /\ comp_config = DefaultConfig
    /\ comp_frame \in CompFrames
    /\ comp_face \in CompCrops
    /\ comp_info \in CompFaces
    /\ comp_result = EmptyMat
    /\ comp_done = FALSE
    /\ PairIdle
    /\ BatchIdle

NextComposite ==
    \/ \E mode \in BlendModes : SetBlendingMode(mode)
    \/ \E radius \in FeatherRadii : SetFeatherRadius(radius)
    \/ \E enable \in BOOLEAN : EnableColorCorrection(enable)
    \/ \E strength \in DetailStrengths : SetDetailReinjectionStrength(strength)
    \/ CompositeFaceCall

SpecComposite == InitComposite /\ [][NextComposite]_vars

\* -------------------------------------------- several engines, one thread each
\* Each Engine owns the Impl its constructor makes (engine.cpp 206), and every
\* member function works on pImpl. A thread calls one engine; processFrame is
\* cut where it has read initialized_ (line 100) and goes on to its
\* components, so that the other engines' calls fall in between.
\* engines that all work on the first engine's Impl
ImplShared(engine) == 1

\* the Impl an engine's calls work on
ImplOf(engine) == engine

PairFace == Face(Box(0, 0, 1, 1), Fill(1, 1, 200), 0)

PairContexts ==
    [input_frame : {FrameOf(1)}, detected_faces : {<< >>, <<PairFace>>},
     controls : Controls, mode : {"FEEDFORWARD", "DIFFUSION"}]

PairEnv == [net_boxes |-> "one", net_label |-> 1, net_out |-> "same_size",
            fault |-> NoFault, elapsed |-> 16]

PairIdleAt(i) == pair_call[i].pc = "idle"

PairUnchanged == UNCHANGED <<engineVars, callVars, maskVars, blendVars, compVars,
                             batchVars>>

PairInitialize(i, gpu_ok) ==
    /\ PairIdleAt(i)
    /\ pair_impl' = [pair_impl EXCEPT ![ImplOf(i)] =
                        IF gpu_ok
                        THEN Impl(TRUE, @.processing_mode_, FALSE, FALSE, FALSE,
                                  FALSE, FALSE)
                        ELSE @]
    /\ UNCHANGED pair_call
    /\ PairUnchanged

PairLoadModels(i, n, dif_ok) ==
    /\ PairIdleAt(i)
    /\ pair_impl[ImplOf(i)].initialized_
    /\ pair_impl' = [pair_impl EXCEPT ![ImplOf(i)] =
                        Impl(TRUE, @.processing_mode_,
                             @.detector_loaded \/ n >= 1,
                             @.estimator_loaded \/ n >= 2,
                             @.parser_loaded \/ n >= 3,
                             @.generator_loaded \/ n >= 4,
                             @.diffusion_loaded \/ (n >= 4 /\ dif_ok))]
    /\ UNCHANGED pair_call
    /\ PairUnchanged

PairSetProcessingMode(i, mode) ==
    /\ PairIdleAt(i)
    /\ pair_impl' = [pair_impl EXCEPT ![ImplOf(i)].processing_mode_ = mode]
    /\ UNCHANGED pair_call
    /\ PairUnchanged

\* processFrame up to line 105; snapshot is the engine's own Impl as the call
\* found it
PairProcessFrameBegin(i, c) ==
    /\ PairIdleAt(i)
    /\ pair_call' = [pair_call EXCEPT ![i] =
                        [pc |-> IF pair_impl[ImplOf(i)].initialized_
                                THEN "running" ELSE "returned",
                         context |-> c, env |-> PairEnv,
                         snapshot |-> pair_impl[i],
                         result |-> IF pair_impl[ImplOf(i)].initialized_
                                    THEN NoResult ELSE NotInitializedResult]]
    /\ UNCHANGED pair_impl
    /\ PairUnchanged

\* processFrame from line 107 on
PairProcessFrameRun(i) ==
    /\ pair_call[i].pc = "running"
    /\ pair_call' = [pair_call EXCEPT ![i].pc = "returned",
                                      ![i].result =
                         ProcessFrameOf([pair_impl[ImplOf(i)] EXCEPT !.initialized_ = TRUE],
                                        pair_call[i].context, pair_call[i].env).result]
    /\ UNCHANGED pair_impl
    /\ PairUnchanged

PairReturn(i) ==
    /\ pair_call[i].pc = "returned"
    /\ pair_call' = [pair_call EXCEPT ![i] = NoCall]
    /\ UNCHANGED pair_impl
    /\ PairUnchanged

InitPair ==
    /\ build = "full"
    /\ initialized_ = FALSE
    /\ processing_mode_ = "FEEDFORWARD"
    /\ error_callback_ = FALSE
    /\ detector_loaded = FALSE
    /\ estimator_loaded = FALSE
    /\ parser_loaded = FALSE
    /\ generator_loaded = FALSE
    /\ diffusion_loaded = FALSE
    /\ pc = "idle"
    /\ op = "none"
    /\ ret = "none"
    /\ context = NoContext
    /\ env = NoEnv
    /\ result = NoResult
    /\ calls = << >>
    /\ full_mask = EmptyMat
    /\ region = "none"
    /\ region_mask = EmptyMat
    /\ region_thrown = FALSE
    /\ BlendIdle
    /\ CompIdle
    /\ PairIdle
    /\ BatchIdle

NextPair ==
    \E i \in Instances :
        \/ \E gpu_ok \in BOOLEAN : PairInitialize(i, gpu_ok)
        \/ \E n \in 0..4, dif_ok \in BOOLEAN : PairLoadModels(i, n, dif_ok)
        \/ \E mode \in {"FEEDFORWARD", "DIFFUSION"} : PairSetProcessingMode(i, mode)
        \/ \E c \in PairContexts : PairProcessFrameBegin(i, c)
        \/ PairProcessFrameRun(i)
        \/ PairReturn(i)

SpecPair == InitPair /\ [][NextPair]_vars

\* ------------------------------------------------------- batch operations
ListsOf(S) == UNION {[1..n -> S] : n \in 0..MaxBatch}

BatchCrops == {EmptyMat, Fill(1, 1, 200), Fill(1, 1, 30)}

BatchControls == {[target_age |-> 45, identity_lock_strength |-> lock,
                   enable_hair_aging |-> TRUE] : lock \in {0, 70}}

BatchMasks == {EmptyMat, Fill(1, 1, 1)}

Strays == [crash : BOOLEAN, controls : BatchControls]

NoStray == CHOOSE y \in Strays : y.crash

BatchCalls ==
    [op : {"parseFacesBatch", "estimateAgeBatch"}, face_crops : ListsOf(BatchCrops),
     controls : {<< >>}, parsing_masks : {<< >>}, loaded : BOOLEAN,
     net_label : NetLabels, net_age : {-5, 45, 120}, stray : {NoStray}]
    \cup
    [op : {"generateAgedFacesBatch"}, face_crops : ListsOf(BatchCrops),
     controls : ListsOf(BatchControls), parsing_masks : ListsOf(BatchMasks),
     loaded : BOOLEAN, net_label : {0}, net_age : {45}, stray : Strays]

BatchReturns(results, outside, crashed) ==
    /\ ~batch_out.done
    /\ batch_out' = [done |-> TRUE, results |-> results, outside |-> outside,
                     crashed |-> crashed]
    /\ UNCHANGED <<batch_in, engineVars, callVars, maskVars, blendVars, compVars,
                   pairVars>>

ParseFacesBatchCall ==
    /\ batch_in.op = "parseFacesBatch"
    /\ BatchReturns(ParseFacesBatch(batch_in.face_crops, batch_in.loaded,
                                    batch_in.net_label), FALSE, FALSE)

EstimateAgeBatchCall ==
    /\ batch_in.op = "estimateAgeBatch"
    /\ BatchReturns(EstimateAgeBatch(batch_in.face_crops, batch_in.loaded,
                                     batch_in.net_age), FALSE, FALSE)

GenerateAgedFacesBatchCall ==
    /\ batch_in.op = "generateAgedFacesBatch"
    /\ LET out == GenerateAgedFacesBatch(batch_in.face_crops, batch_in.controls,
                                         batch_in.parsing_masks, batch_in.loaded,
                                         "same_size", batch_in.stray, 1,
                                         [results |-> << >>, outside |-> FALSE,
                                          crashed |-> FALSE])
       IN  BatchReturns(out.results, out.outside, out.crashed)

InitBatch ==
    /\ build = "full"
    /\ initialized_ = FALSE
    /\ processing_mode_ = "FEEDFORWARD"
    /\ error_callback_ = FALSE
    /\ detector_loaded = FALSE
    /\ estimator_loaded = FALSE
    /\ parser_loaded = FALSE
    /\ generator_loaded = FALSE
    /\ diffusion_loaded = FALSE
    /\ pc = "idle"
    /\ op = "none"
    /\ ret = "none"
    /\ context = NoContext
    /\ env = NoEnv
    /\ result = NoResult
    /\ calls = << >>
    /\ full_mask = EmptyMat
    /\ region = "none"
    /\ region_mask = EmptyMat
    /\ region_thrown = FALSE
    /\ BlendIdle
    /\ CompIdle
    /\ PairIdle
    /\ batch_in \in BatchCalls
    /\ batch_out = NoBatchResult

NextBatch ==
    \/ ParseFacesBatchCall
    \/ EstimateAgeBatchCall
    \/ GenerateAgedFacesBatchCall

SpecBatch == InitBatch /\ [][NextBatch]_vars

\* ------------------------------------------------------------------- claims
ReturnedFrame == pc = "returned" /\ op = "processFrame"

Failure(r) == ~r.success /\ r.error_message # ""

NoModelsLoaded ==
    /\ ~detector_loaded /\ ~estimator_loaded /\ ~parser_loaded
    /\ ~generator_loaded /\ ~diffusion_loaded

\* the faces the detector returns for the call's frame
Detected == DetectFaces(context.input_frame, detector_loaded, env.net_boxes)

\* C1: processFrame on an engine that is not initialized returns success=false
\* with a non-empty error_message and an empty output_frame, and calls neither
\* the detector, the parser, a generator nor the compositor.
C1_NotInitializedFails ==
    (ReturnedFrame /\ ~initialized_) =>
        /\ Failure(result)
        /\ Empty(result.output_frame)
        /\ calls = << >>

C1_Witness ==
    /\ ReturnedFrame /\ ~initialized_ /\ build = "full"
    /\ ~Empty(context.input_frame)
    /\ context.detected_faces # << >>

C3_NoModelsFails ==
    (/\ ReturnedFrame /\ initialized_ /\ NoModelsLoaded
     /\ ~Empty(context.input_frame)) =>
        Failure(result)

\* C4: on an initialized engine, processFrame on an empty input frame returns
\* success=false with a non-empty error_message.
C4_EmptyFrameFails ==
    (ReturnedFrame /\ initialized_ /\ Empty(context.input_frame)) =>
        Failure(result)

\* C5: on an initialized engine, processFrame on a 1x1 or a 10000x10000 input
\* frame returns success=false with a non-empty error_message.
DegenerateSize(m) ==
    \/ m.rows = 1 /\ m.cols = 1
    \/ m.rows = 10000 /\ m.cols = 10000

C5_DegenerateFrameFails ==
    (ReturnedFrame /\ initialized_ /\ DegenerateSize(context.input_frame)) =>
        Failure(result)

\* C6: every result processFrame returns has an empty error_message exactly
\* when its success flag is true.
C6_MessageIffFailure ==
    ReturnedFrame => (result.error_message = "" <=> result.success)

\* a call in which a collaborator threw while a face was processed
Thrown ==
    /\ ReturnedFrame /\ build = "full" /\ initialized_
    /\ env.fault.face \in 1..Len(context.detected_faces)

C6_Witness == Thrown /\ ~result.success /\ result.error_message # ""

\* C7: every successful result, the pass-through included, has the metrics
\* processing_time_ms and faces_processed, the latter equal to the number of
\* processed faces.
C7_MetricsOnSuccess ==
    (ReturnedFrame /\ result.success) =>
        /\ {"processing_time_ms", "faces_processed"} \subseteq MetricKeys(result)
        /\ Metric(result, "faces_processed") = Len(result.processed_faces)

\* C8: when a collaborator throws while face k is processed, the result still
\* carries the output frame with faces 1..k-1 composited onto it.
C8_EarlierFacesKept ==
    (Thrown /\ env.fault.face >= 2) =>
        result.output_frame =
            RunFaces(SubSeq(context.detected_faces, 1, env.fault.face - 1), 1,
                     Clone(context.input_frame), << >>, context, env).frame

\* C9: a given face with an empty aligned_crop is a no-op: the call succeeds
\* and its output frame is the one the remaining faces alone produce.
HasCrop(face) == ~Empty(face.aligned_crop)

EmptyCropGiven ==
    /\ ReturnedFrame /\ build = "full" /\ initialized_
    /\ env.fault = NoFault
    /\ \E i \in 1..Len(context.detected_faces) : ~HasCrop(context.detected_faces[i])

C10_MasksBinary ==
    (region # "none" /\ ~Empty(full_mask)) =>
        \A i \in 1..Len(region_mask.px) : region_mask.px[i] \in {0, 255}

C10_Witness ==
    /\ region = "cheeks"
    /\ \E i \in 1..Len(full_mask.px) : full_mask.px[i] \in {19, 255}
    /\ \E i \in 1..Len(region_mask.px) : region_mask.px[i] = 255

RegionNames == {"eyes", "eyebrows", "forehead", "cheeks", "mouth", "jaw", "neck", "hair"}

\* the mask a region operation derives from a non-empty label map
MaskOf(r, m) ==
    CASE r = "eyes" -> GetEyesMask(m)
      [] r = "eyebrows" -> GetEyebrowsMask(m)
      [] r = "forehead" -> GetForeheadMask(m)
      [] r = "cheeks" -> GetCheeksMask(m)
      [] r = "mouth" -> GetMouthMask(m)
      [] r = "jaw" -> GetJawMask(m)
      [] r = "neck" -> GetNeckMask(m)
      [] r = "hair" -> GetHairMask(m)

Rows(m) == 0..(m.rows - 1)

Cols(m) == 0..(m.cols - 1)

Abs(n) == IF n < 0 THEN -n ELSE n

\* C11: given an empty label map, each of the eight region operations,
\* forehead, cheeks and jaw included, returns an empty mask and raises no error.
C11_EmptyMapGivesEmptyMask ==
    (region # "none" /\ Empty(full_mask)) =>
        /\ ~region_thrown
        /\ Empty(region_mask)

\* C12: getForeheadMask marks a pixel 255 exactly when it is labelled skin (1)
\* and lies within the 15x15 rectangle around a pixel labelled eyebrow (6 or 7),
\* and 0 otherwise; without eyebrow pixels the mask is all zero.
NearBrow(m, y, x) ==
    \E yy \in Rows(m), xx \in Cols(m) :
        /\ At(m, yy, xx) \in {6, 7}
        /\ Abs(yy - y) <= ForeheadKernel \div 2
        /\ Abs(xx - x) <= ForeheadKernel \div 2

C13_JawIsLowerSkin ==
    (region = "jaw" /\ ~Empty(full_mask)) =>
        \A y \in Rows(full_mask), x \in Cols(full_mask) :
            (At(region_mask, y, x) = 255) <=>
                (At(full_mask, y, x) = 1 /\ 10 * y >= 6 * full_mask.rows)

C15_RegionsDisjoint ==
    (region # "none" /\ ~Empty(full_mask)) =>
        \A r \in RegionNames \ {region} :
            \A i \in 1..Len(full_mask.px) :
                ~(region_mask.px[i] = 255 /\ MaskOf(r, full_mask).px[i] = 255)

\* ---- generateAgedFace called on its own (SpecBlend)
GenPixels == 1..Len(gen_face_crop.px)

\* the call got as far as blending: nothing failed
Blended ==
    /\ gen_done
    /\ generator_loaded
    /\ ~Empty(gen_face_crop)
    /\ gen_net.fault # "inference"
    /\ SameSize(gen_face_crop, gen_net.image)
    /\ (gen_net.fault = "blend" => Empty(gen_parsing_mask))

\* the identity-lock blend of the call's crop and network output
DefaultBlend == AddWeighted(gen_face_crop, gen_controls.identity_lock_strength,
                            gen_net.image)

\* C16: generateAgedFace returns a crop equal to the original crop, and no
\* blend of it, whenever the model is not loaded, the crop is empty, inference
\* throws, blending throws, or the generated image differs in size from the crop.
C16_SoftFailReturnsOriginal ==
    (/\ gen_done
     /\ \/ ~generator_loaded
        \/ Empty(gen_face_crop)
        \/ gen_net.fault = "inference"
        \/ ~SameSize(gen_face_crop, gen_net.image)
        \/ (gen_net.fault = "blend" /\ ~Empty(gen_parsing_mask)))
        => gen_result = gen_face_crop

C16_Witness ==
    /\ gen_done
    /\ generator_loaded
    /\ ~Empty(gen_face_crop)
    /\ ~Empty(gen_parsing_mask)
    /\ gen_net.fault = "blend"
    /\ SameSize(gen_face_crop, gen_net.image)
    /\ DefaultBlend # gen_face_crop
    /\ gen_result = gen_face_crop

\* the regions applyRegionalBlending blends, by label, and their strengths in
\* percent
RegionLabels == {1, 3, 4, 5, 6}

RegionPercent(label, controls) ==
    IF label = 1 THEN (IF controls.enable_hair_aging THEN 80 ELSE 10)
    ELSE IF label \in {3, 4} THEN 30
    ELSE 40

\* C17: a pixel inside a region of strength s is original*(1-s) +
\* transformed*s, transformed being the network's output, in place of the
\* identity-lock blend and not on top of it (to within 1 of rounding); a pixel
\* outside every region keeps the identity-lock blend.
C17_RegionOverridesDefault ==
    (Blended /\ ~Empty(gen_parsing_mask)) =>
        \A i \in GenPixels :
            IF gen_parsing_mask.px[i] \in RegionLabels
            THEN LET pct == RegionPercent(gen_parsing_mask.px[i], gen_controls)
                 IN  Abs(100 * gen_result.px[i]
                         - (gen_face_crop.px[i] * (100 - pct)
                            + gen_net.image.px[i] * pct)) <= 100
            ELSE gen_result.px[i] = DefaultBlend.px[i]

\* x < y for floats
F32Less(x, y) ==
    LET e == Max(x.e, y.e)
    IN  x.m * 2^(e - x.e) < y.m * 2^(e - y.e)

\* what the call under way returns when given other controls
ResultWith(controls) ==
    GenerateAgedFaceFrom(gen_face_crop, controls, gen_parsing_mask,
                         generator_loaded, gen_net)

InRegion(i) ==
    ~Empty(gen_parsing_mask) /\ gen_parsing_mask.px[i] \in RegionLabels

\* the identity-lock blend of pixel i before conversion to 8 bits, in hundredths
LockBlend100(i) ==
    gen_face_crop.px[i] * gen_controls.identity_lock_strength
    + gen_net.image.px[i] * (100 - gen_controls.identity_lock_strength)

\* the region blend of pixel i before conversion to 8 bits, in hundredths
RegionBlend100(i) ==
    LET pct == RegionPercent(gen_parsing_mask.px[i], gen_controls)
    IN  gen_face_crop.px[i] * (100 - pct) + DefaultBlend.px[i] * pct

\* C19: every pixel written to the blended crop is the computed blend clamped
\* to 0..255, for identity locks outside [0,1] too: 255 when the blend is above
\* 255, 0 when it is below 0, the blend itself (rounded, or truncated in a
\* region) otherwise; never the blend modulo 256.
C19_BlendSaturates ==
    Blended =>
        \A i \in GenPixels :
            /\ gen_result.px[i] \in 0..255
            /\ LockBlend100(i) >= 25500 => DefaultBlend.px[i] = 255
            /\ LockBlend100(i) <= 0 => DefaultBlend.px[i] = 0
            /\ LockBlend100(i) \in 0..25500 =>
                   Abs(100 * DefaultBlend.px[i] - LockBlend100(i)) <= 50
            /\ IF InRegion(i)
               THEN /\ RegionBlend100(i) \in 0..25500
                    /\ 100 * gen_result.px[i] <= RegionBlend100(i)
                    /\ 100 * gen_result.px[i] > RegionBlend100(i) - 200
               ELSE gen_result.px[i] = DefaultBlend.px[i]

C19_Witness ==
    /\ Blended
    /\ \E i \in GenPixels :
           /\ ~InRegion(i)
           /\ LockBlend100(i) > 25600
           /\ gen_result.px[i] = 255
           /\ (LockBlend100(i) \div 100) % 256 < 200

\* C20: with identity_lock_strength 1.0 and all region strengths 0, the
\* returned crop equals the original crop at every pixel to within 1 of
\* rounding, whatever the network output and the label map.
C20_FullLockReproducesOriginal ==
    (/\ Blended
     /\ gen_controls.identity_lock_strength = 100
     /\ gen_controls.region_strengths = 0) =>
        /\ SameSize(gen_result, gen_face_crop)
        /\ \A i \in GenPixels :
               /\ Abs(gen_result.px[i] - gen_face_crop.px[i]) <= 1
               /\ ~InRegion(i) => gen_result.px[i] = gen_face_crop.px[i]

C20_Witness ==
    /\ Blended
    /\ gen_controls.identity_lock_strength = 100
    /\ gen_controls.region_strengths = 0
    /\ \E i \in GenPixels :
           /\ InRegion(i)
           /\ gen_net.image.px[i] # gen_face_crop.px[i]
           /\ gen_result.px[i] = gen_face_crop.px[i] - 1

\* ---- compositeFace called on its own (SpecComposite)
\* the call's face box has no pixel in common with its frame
BoxOutsideFrame ==
    LET b == comp_info.box
    IN  \/ b.x >= comp_frame.cols \/ b.x + b.width <= 0
        \/ b.y >= comp_frame.rows \/ b.y + b.height <= 0

\* frame pixel i of the call lies in the face box
InBox(i) ==
    LET b == comp_info.box
        y == (i - 1) \div comp_frame.cols
        x == (i - 1) % comp_frame.cols
    IN  /\ b.x <= x /\ x <= b.x + b.width - 1
        /\ b.y <= y /\ y <= b.y + b.height - 1

\* C21: compositeFace returns with the target frame unchanged whenever the
\* crop is empty or the face box lies entirely outside the frame, under every
\* blending mode, feather radius, colour-correction setting and detail strength.
C21_NothingToPlaceIsNoOp ==
    (comp_done /\ (Empty(comp_face) \/ BoxOutsideFrame)) => comp_result = comp_frame

C21_Witness ==
    /\ comp_done
    /\ ~Empty(comp_face)
    /\ BoxOutsideFrame
    /\ comp_info.box.y = 0
    /\ comp_config = BlendConfig("poisson", 2, TRUE, 150)
    /\ comp_result = comp_frame

\* C22: compositeFace writes only frame pixels inside the face box: every
\* other pixel keeps its value, and the frame keeps its width and height with
\* one value per pixel, also for a box partly outside the frame.
C22_WritesOnlyInsideBox ==
    comp_done =>
        /\ SameSize(comp_result, comp_frame)
        /\ Len(comp_result.px) = comp_frame.rows * comp_frame.cols
        /\ \A i \in 1..Len(comp_frame.px) :
               ~InBox(i) => comp_result.px[i] = comp_frame.px[i]

C22_Witness ==
    /\ comp_done
    /\ comp_info.box.x < 0
    /\ comp_config.feather_radius = 2
    /\ \E i, j \in 1..Len(comp_frame.px) :
           /\ InBox(i) /\ comp_result.px[i] # comp_frame.px[i]
           /\ ~InBox(j) /\ comp_result.px[j] = comp_frame.px[j]

\* ---- several engines (SpecPair)
\* C23: engine instances share no state: from the moment a processFrame call
\* on an engine starts, whatever the other engines' threads do, the engine's
\* own Impl stays as the call found it, and the call returns what processFrame
\* returns for that Impl run alone.
C23_InstancesIndependent ==
    \A i \in Instances :
        LET call == pair_call[i]
        IN  /\ call.pc # "idle" => pair_impl[i] = call.snapshot
            /\ call.pc = "returned" =>
                   call.result = ProcessFrameOf(call.snapshot, call.context,
                                                call.env).result

C23_Witness ==
    /\ pair_call[1].pc = "returned"
    /\ pair_call[1].result.success
    /\ pair_call[1].result.output_frame # pair_call[1].context.input_frame
    /\ pair_call[2].pc = "returned"
    /\ pair_call[2].context = pair_call[1].context
    /\ ~pair_call[2].result.success
    /\ pair_impl[1] # pair_impl[2]

\* ---- the batch operations (SpecBatch)
\* the mask the batch gives crop i
BatchMaskFor(i) ==
    IF i <= Len(batch_in.parsing_masks) THEN batch_in.parsing_masks[i] ELSE EmptyMat

\* the controls the batch may give crop i: its own, or, beyond the list, any
BatchControlsFor(i) ==
    IF i <= Len(batch_in.controls) THEN {batch_in.controls[i]} ELSE BatchControls

\* C24: each batch operation returns one result per crop, in input order,
\* result[i] being the single-item operation on crop[i]; generateAgedFacesBatch
\* does so for controls and masks lists of any length, the empty one included,
\* without reading outside those lists.
C24_BatchIsItemwise ==
    batch_out.done =>
        /\ ~batch_out.outside
        /\ ~batch_out.crashed
        /\ Len(batch_out.results) = Len(batch_in.face_crops)
        /\ \A i \in 1..Len(batch_in.face_crops) :
               LET crop == batch_in.face_crops[i]
                   item == batch_out.results[i]
               IN  CASE batch_in.op = "parseFacesBatch" ->
                            item = ParseFace(crop, batch_in.loaded, batch_in.net_label)
                     [] batch_in.op = "estimateAgeBatch" ->
                            item = EstimateAge(crop, batch_in.loaded, batch_in.net_age)
                     [] OTHER ->
                            \E k \in BatchControlsFor(i) :
                                item = GenerateAgedFace(crop, k, BatchMaskFor(i),
                                                        batch_in.loaded, "same_size")

\* ---- the per-face loop (Spec)
\* a processFrame call of the full build that ran its loop to the end
LoopCompleted ==
    /\ ReturnedFrame /\ build = "full"
    /\ result.success
    /\ result.processed_faces # << >>

\* the component calls of the loop: the log without the detection before it
LoopCalls ==
    IF calls # << >> /\ calls[1][1] = "detectFaces" THEN Tail(calls) ELSE calls

\* frame pixel i lies in the box of one of the call's faces
InSomeBox(i) ==
    \E k \in 1..Len(result.processed_faces) :
        i \in BoxPixels(context.input_frame, result.processed_faces[k].box)

\* C25: in a processFrame call over faces f1..fn the component calls are
\* Parse(f1), Transform(f1), Composite(f1), ..., Parse(fn), Transform(fn),
\* Composite(fn): each step once per face, a face's steps after the previous
\* face's Composite; and the output frame differs from the input frame only
\* where a compositeFace call may write, the input frame staying as given.
C25_StepsInOrder ==
    LoopCompleted =>
        LET n == Len(result.processed_faces)
        IN  /\ Len(LoopCalls) = 3 * n
            /\ \A i \in 1..n :
                   /\ LoopCalls[3 * i - 2] = <<"parseFace", i>>
                   /\ LoopCalls[3 * i - 1] \in {<<"feedforward", i>>, <<"diffusion", i>>}
                   /\ LoopCalls[3 * i] = <<"compositeFace", i>>
            /\ SameSize(result.output_frame, context.input_frame)
            /\ \A i \in 1..Len(context.input_frame.px) :
                   ~InSomeBox(i) => result.output_frame.px[i] = context.input_frame.px[i]

\* ---- the order of the region blends (SpecBlend)
\* the image aged before and after each blendRegion call of the call under way
Stages ==
    <<DefaultBlend>> \o RegionStages(gen_face_crop, DefaultBlend, gen_parsing_mask,
                                     gen_controls)

\* the region masks in the order the claim states, with their strengths
OrderedRegions ==
    <<[mask |-> HairMask(gen_parsing_mask), strength |-> HairStrength(gen_controls)],
      [mask |-> EyeMask(gen_parsing_mask), strength |-> F32Literal(3, 10)],
      [mask |-> MouthMask(gen_parsing_mask), strength |-> F32Literal(4, 10)]>>

InMask(k, i) == OrderedRegions[k].mask.px[i] > 127

C27_RegionsFollowParserVocabulary ==
    (Blended /\ ~Empty(gen_parsing_mask)) =>
        /\ HairMask(gen_parsing_mask) = GetHairMask(gen_parsing_mask)
        /\ EyeMask(gen_parsing_mask) = GetEyesMask(gen_parsing_mask)
        /\ MouthMask(gen_parsing_mask) = GetMouthMask(gen_parsing_mask)
        /\ \A i \in GenPixels :
               gen_parsing_mask.px[i] = 1 => gen_result.px[i] = DefaultBlend.px[i]

\* ---- the generator of a call (Spec)
\* the generator calls of the call under way, in call order
GeneratorCalls ==
    SelectSeq(calls, LAMBDA x : x[1] \in {"feedforward", "diffusion"})

\* the faces the loop of the call under way runs over
LoopFaces ==
    IF context.detected_faces = << >> THEN Detected ELSE context.detected_faces

LoopEntered ==
    /\ ReturnedFrame /\ build = "full" /\ initialized_
    /\ LoopFaces # << >>

\* how often a generator was called for face i
GeneratorCallsFor(i) ==
    Cardinality({k \in 1..Len(GeneratorCalls) : GeneratorCalls[k][2] = i})

\* C28: the loop calls one generator per face, the one context.mode names:
\* feedforward for FEEDFORWARD and AUTO, diffusion for DIFFUSION. With HYBRID
\* it calls none, every compositeFace call gets an empty crop, and the call
\* succeeds with faces_processed the number of faces and the output frame equal
\* to the input frame.
C28_OneGeneratorByMode ==
    LoopEntered =>
        LET n == Len(LoopFaces)
            hybrid == context.mode = "HYBRID"
        IN  /\ \A k \in 1..Len(GeneratorCalls) :
                   /\ context.mode \in {"FEEDFORWARD", "AUTO"}
                          => GeneratorCalls[k][1] = "feedforward"
                   /\ context.mode = "DIFFUSION" => GeneratorCalls[k][1] = "diffusion"
            /\ \A i \in 1..n :
                   /\ GeneratorCallsFor(i) <= 1
                   /\ (result.success /\ ~hybrid) => GeneratorCallsFor(i) = 1
            /\ hybrid =>
                   /\ GeneratorCalls = << >>
                   /\ \A i \in 1..n :
                          \E k \in 1..Len(calls) : calls[k] = <<"compositeFace", i>>
                   /\ result.success
                   /\ Metric(result, "faces_processed") = n
                   /\ result.output_frame = context.input_frame

\* a HYBRID call over two faces on a frame that the feedforward generator's
\* crops would have changed
C28_Witness ==
    /\ LoopEntered
    /\ context.mode = "HYBRID"
    /\ Len(LoopFaces) = 2
    /\ generator_loaded
    /\ ProcessFrameFull([context EXCEPT !.mode = "FEEDFORWARD"],
                        [env EXCEPT !.net_out = "same_size"]).result.output_frame
           # context.input_frame

\* ---- processFrame and the engine's mode (Spec)
\* a processFrame call is made in this step
FrameCallStep == pc = "idle" /\ pc' = "returned" /\ op' = "processFrame"

\* the engine as it would be had setProcessingMode never been called
ModeNeverSet == [ThisImpl EXCEPT !.processing_mode_ = NewImpl.processing_mode_]

\* C29: the result of processFrame depends on the mode of the context alone:
\* whatever setProcessingMode calls came before, it is the result the same
\* context gets on the engine had none of them been made; and a processFrame
\* call, failed or not, leaves getProcessingMode's value, the initialized flag
\* and the rest of the engine's state as they were.
C29_ModeOfContextOnly ==
    /\ [](ReturnedFrame /\ build = "full" =>
              result = ProcessFrameOf(ModeNeverSet, context, env).result)
    /\ [][FrameCallStep =>
              /\ processing_mode_' = processing_mode_
              /\ initialized_' = initialized_
              /\ UNCHANGED engineVars]_vars

\* the engine set to DIFFUSION, a FEEDFORWARD context served as such
C29_Witness ==
    /\ ReturnedFrame /\ build = "full" /\ initialized_
    /\ processing_mode_ = "DIFFUSION"
    /\ context.mode = "FEEDFORWARD"
    /\ result.success
    /\ result.output_frame # context.input_frame
    /\ ProcessFrameFull([context EXCEPT !.mode = "DIFFUSION"], env).result # result

\* ---- loadModels (Spec)
\* C30: no exception leaves loadModels of the full build: whether or not an
\* error callback is set, the call returns true or false, and false when the
\* engine is not initialized, the initialized flag staying as it was.
C30_LoadModelsNeverThrows ==
    (pc = "returned" /\ op = "loadModels" /\ build = "full") =>
        /\ ret \in {"true", "false"}
        /\ ~initialized_ => ret = "false"

====
